---- MODULE Spec2Model ----
(***************************************************************************)
(* Model of planning_agent.agent.PlanningAgent: the approval-gated        *)
(* workflow generate_plan / approve_plan / reject_plan / implement_plan,  *)
(* with the plan generation back ends and the file synthesis it calls.    *)
(*                                                                         *)
(* Python strings are sequences of atoms (a word, a back quote, a file    *)
(* extension with its dot); Python values are tagged records so that      *)
(* None, "" and a list stay distinct.                                     *)
(***************************************************************************)
EXTENDS Integers, Sequences, FiniteSets, TLC

VARIABLES
    model_provider,   \* self.model_provider
    current_plan,     \* self.current_plan
    plan_approved,    \* self.plan_approved
    op,               \* the last call made on the agent
    arg,              \* its argument (requirement or output_dir; for write_files the
                      \* output_dir its descriptors were made for, if any)
    raised,           \* the exception type it raised, "none" when it returned
    message,          \* the exception's message
    returned,         \* the value it returned
    pre_plan,         \* current_plan when the last call started
    pre_approved,     \* plan_approved when the last call started
    synth_plan,       \* the plan the last call passed to _generate_files_from_plan
    last_generated,   \* the plan returned by the most recent successful generate_plan
    approved_since,   \* approve_plan succeeded since then, with no reject_plan after it
    rejected_since,   \* reject_plan was called and no generate_plan succeeded since
    impl_results,     \* per output_dir, what implement_plan last returned for the plan now stored
    prev_files,       \* what the previous implement_plan returned for the same output_dir
    fs,               \* the disk: what exists at each path below the working directory
    pre_fs,           \* the disk when the last write_files call started
    w_files,          \* the files argument of the last write_files call
    w_overwrite,      \* its overwrite argument
    failed_at,        \* the index of the descriptor at which it raised, 0 when it returned
    n_writes,         \* the number of write_files calls made
    cli,              \* the command being run: its options and its position
    calls,            \* the agent methods the command has called, in order
    other,            \* a second PlanningAgent, with the last call made on it
    threads,          \* callers inside a method of the agent: position and locals
    prov              \* the last call made on a plan provider: inputs and outcome

vars == <<model_provider, current_plan, plan_approved, op, arg, raised, message,
          returned, pre_plan, pre_approved, synth_plan, last_generated,
          approved_since, rejected_since, impl_results, prev_files,
          fs, pre_fs, w_files, w_overwrite, failed_at, n_writes, cli, calls,
          other, threads, prov>>

wvars == <<fs, pre_fs, w_files, w_overwrite, failed_at, n_writes>>
cvars == <<cli, calls>>
xvars == <<other, threads, prov>>

----------------------------------------------------------------------------
\* ---- Python values ----

None == [tag |-> "None"]
Str(s) == [tag |-> "str", chars |-> s]
List(xs) == [tag |-> "list", items |-> xs]

\* Python truthiness of an Optional[str]: None and "" are false.
Truthy(v) == v.tag = "str" /\ v.chars # <<>>

\* FileToGenerate(path, content, description)
FileToGenerate(path, content, description) ==
    [path |-> path, content |-> content, description |-> description]

----------------------------------------------------------------------------
\* ---- Text ----

TICK == "BACKQUOTE"   \* the back-quote character
SEP == "/"

\* The extensions the file pattern accepts, each atom standing for ".ext".
PatternExts == {".py", ".md", ".txt", ".json", ".yaml"}

EndsWith(s, ext) == Len(s) > 0 /\ s[Len(s)] = ext

\* os.path.join(a, b) for one trailing component.
PathJoin(a, b) ==
    IF Len(b) > 0 /\ b[1] = SEP THEN b
    ELSE IF a = <<>> \/ a[Len(a)] = SEP THEN a \o b
    ELSE a \o <<SEP>> \o b

----------------------------------------------------------------------------
\* ---- File synthesis ----

\* Position of the first back quote after position i, 0 when there is none.
RECURSIVE NextTick(_, _)
NextTick(text, i) ==
    IF i >= Len(text) THEN 0
    ELSE IF text[i + 1] = TICK THEN i + 1
    ELSE NextTick(text, i + 1)

\* The file pattern matched at position i: `([^`]+\.(py|md|txt|json|yaml))`
\* The run [^`]+ cannot cross a back quote, so the closing quote is the next
\* one; before it stands the extension, and at least one character before that.
MatchEnd(text, i) ==
    IF text[i] # TICK THEN 0
    ELSE LET j == NextTick(text, i)
         IN IF j # 0 /\ j - i - 1 >= 2 /\ text[j - 1] \in PatternExts
            THEN j ELSE 0

\* findall resuming at the closing quote of a match, so that it opens the next.
RECURSIVE FindAll_overlapping(_, _)
FindAll_overlapping(text, i) ==
    IF i > Len(text) THEN <<>>
    ELSE LET j == MatchEnd(text, i)
         IN IF j # 0
            THEN <<SubSeq(text, i + 1, j - 1)>> \o FindAll_overlapping(text, j)
            ELSE FindAll_overlapping(text, i + 1)

\* re.findall(file_pattern, plan), group 1 of every match: leftmost,
\* non-overlapping matches, scanning on from the end of each match.
RECURSIVE FindAll(_, _)
FindAll(text, i) ==
    IF i > Len(text) THEN <<>>
    ELSE LET j == MatchEnd(text, i)
         IN IF j # 0
            THEN <<SubSeq(text, i + 1, j - 1)>> \o FindAll(text, j + 1)
            ELSE FindAll(text, i + 1)

_generate_file_content(filename) ==
    IF EndsWith(filename, ".py")
    THEN <<"\"\"\"Generated Python file: ">> \o filename
             \o <<"\"\"\"\n\n# TODO: Implement based on plan\n">>
    ELSE IF EndsWith(filename, ".md")
    THEN <<"# ">> \o filename \o <<"\n\nGenerated documentation.\n">>
    ELSE IF EndsWith(filename, ".json") THEN <<"{}\n">>
    ELSE IF EndsWith(filename, ".yaml") THEN <<"# YAML configuration\n">>
    ELSE <<"# Generated file\n">>

\* The mock files without the output directory in their paths.
_generate_mock_files_flat(output_dir) ==
    << FileToGenerate(<<"main", ".py">>,
                      <<"MAIN_PY_TEMPLATE">>, <<"Main application file">>),
       FileToGenerate(<<"utils", ".py">>,
                      <<"UTILS_PY_TEMPLATE">>, <<"Utility functions">>),
       FileToGenerate(<<"README", ".md">>,
                      <<"README_MD_TEMPLATE">>, <<"Project documentation">>) >>

_generate_mock_files(output_dir) ==
    << FileToGenerate(PathJoin(output_dir, <<"main", ".py">>),
                      <<"MAIN_PY_TEMPLATE">>, <<"Main application file">>),
       FileToGenerate(PathJoin(output_dir, <<"utils", ".py">>),
                      <<"UTILS_PY_TEMPLATE">>, <<"Utility functions">>),
       FileToGenerate(PathJoin(output_dir, <<"README", ".md">>),
                      <<"README_MD_TEMPLATE">>, <<"Project documentation">>) >>

\* Mock files whose README is the plan text.
_generate_files_from_plan_embeds_plan(provider, plan, output_dir) ==
    IF provider = "mock"
    THEN [k \in 1..3 |->
             IF k = 3
             THEN FileToGenerate(_generate_mock_files(output_dir)[3].path, plan,
                                 <<"Project documentation">>)
             ELSE _generate_mock_files(output_dir)[k]]
    ELSE LET matches == FindAll(plan, 1)
         IN [k \in 1..Len(matches) |->
                FileToGenerate(PathJoin(output_dir, matches[k]),
                               _generate_file_content(matches[k]),
                               <<"Generated ">> \o matches[k])]

_generate_files_from_plan(provider, plan, output_dir) ==
    IF provider = "mock" THEN _generate_mock_files(output_dir)
    ELSE LET matches == FindAll(plan, 1)
         IN [k \in 1..Len(matches) |->
                FileToGenerate(PathJoin(output_dir, matches[k]),
                               _generate_file_content(matches[k]),
                               <<"Generated ">> \o matches[k])]

----------------------------------------------------------------------------
\* ---- Plan generation ----

\* The outcome of a call: an exception, or a returned value.
Raise(type, msg) == [raised |-> type, message |-> msg, value |-> None]
Return(v) == [raised |-> "none", message |-> "", value |-> v]

_generate_mock_plan(requirement) ==
    Str(<<"# Implementation Plan\n\n## Requirement\n">> \o requirement
        \o <<"\n\n## Proposed Solution\n\n### Files to Create\n1. ",
             TICK, "main", ".py", TICK, " - Main application entry point\n2. ",
             TICK, "utils", ".py", TICK, " - Utility functions\n3. ",
             TICK, "README", ".md", TICK, " - Documentation\n",
             "\n### Implementation Steps ... ## Timeline ...\n">>)

\* env: what the call finds outside the agent. env.lib: the client library
\* imports; env.key: the API key variable is set; env.reply: what the remote
\* call does (raises, or answers with a content value).
_generate_plan_openai(requirement, env) ==
    IF ~env.lib
    THEN Raise("ImportError", "openai package not installed")
    ELSE IF ~env.key
    THEN Raise("ValueError", "OPENAI_API_KEY environment variable not set")
    ELSE IF env.reply.kind = "raise"
    THEN Raise("BackendError", "remote call failed")
    ELSE Return(env.reply.content)

_generate_plan_anthropic(requirement, env) ==
    IF ~env.lib
    THEN Raise("ImportError", "anthropic package not installed")
    ELSE IF ~env.key
    THEN Raise("ValueError", "ANTHROPIC_API_KEY environment variable not set")
    ELSE IF env.reply.kind = "raise"
    THEN Raise("BackendError", "remote call failed")
    ELSE Return(env.reply.content)

_generate_plan_with_llm(provider, requirement, env) ==
    IF provider = "mock" THEN Return(_generate_mock_plan(requirement))
    ELSE IF provider = "openai" THEN _generate_plan_openai(requirement, env)
    ELSE IF provider = "anthropic" THEN _generate_plan_anthropic(requirement, env)
    ELSE Raise("ValueError", "Unknown model provider")

----------------------------------------------------------------------------
\* ---- The agent's methods ----
\* self is the agent's fields; a method yields the fields after the call and
\* the call's outcome.

Outcome(self, out) == [self |-> self, out |-> out]

\* generate_plan without line 60: the approval of the old plan is kept.
generate_plan_keeps_approval(self, requirement, env) ==
    LET plan == _generate_plan_with_llm(self.model_provider, requirement, env)
    IN IF plan.raised # "none" THEN Outcome(self, plan)
       ELSE Outcome([self EXCEPT !.current_plan = plan.value],
                    Return(plan.value))

\* generate_plan dropping the old plan before it calls the back end.
generate_plan_clears_first(self, requirement, env) ==
    LET plan == _generate_plan_with_llm(self.model_provider, requirement, env)
    IN IF plan.raised # "none"
       THEN Outcome([self EXCEPT !.current_plan = None, !.plan_approved = FALSE],
                    plan)
       ELSE Outcome([self EXCEPT !.current_plan = plan.value,
                                 !.plan_approved = FALSE],
                    Return(plan.value))

generate_plan(self, requirement, env) ==
    LET plan == _generate_plan_with_llm(self.model_provider, requirement, env)
    IN IF plan.raised # "none" THEN Outcome(self, plan)
       ELSE Outcome([self EXCEPT !.current_plan = plan.value,
                                 !.plan_approved = FALSE],
                    Return(plan.value))

\* approve_plan setting the flag before it looks for a plan.
approve_plan_sets_first(self) ==
    IF ~Truthy(self.current_plan)
    THEN Outcome([self EXCEPT !.plan_approved = TRUE],
                 Raise("ValueError", "No plan to approve. Generate a plan first."))
    ELSE Outcome([self EXCEPT !.plan_approved = TRUE], Return(None))

\* approve_plan without the guard of line 168.
approve_plan_unguarded(self) ==
    Outcome([self EXCEPT !.plan_approved = TRUE], Return(None))

approve_plan(self) ==
    IF ~Truthy(self.current_plan)
    THEN Outcome(self, Raise("ValueError", "No plan to approve. Generate a plan first."))
    ELSE Outcome([self EXCEPT !.plan_approved = TRUE], Return(None))

\* reject_plan without line 174: the flag is kept.
reject_plan_keeps_approval(self) ==
    Outcome([self EXCEPT !.current_plan = None], Return(None))

\* reject_plan without line 175: the plan is kept.
reject_plan_keeps_plan(self) ==
    Outcome([self EXCEPT !.plan_approved = FALSE], Return(None))

reject_plan(self) ==
    Outcome([self EXCEPT !.plan_approved = FALSE, !.current_plan = None],
            Return(None))

\* implement_plan without the approval guard of line 190.
implement_plan_unguarded(self, output_dir) ==
    IF ~Truthy(self.current_plan)
    THEN Outcome(self, Raise("ValueError", "No plan to implement"))
    ELSE Outcome(self, Return(List(_generate_files_from_plan(
                     self.model_provider, self.current_plan.chars, output_dir))))

\* implement_plan using the approval up: a second call needs a new approval.
implement_plan_consumes_approval(self, output_dir) ==
    IF ~self.plan_approved
    THEN Outcome(self, Raise("ValueError", "Plan must be approved before implementation"))
    ELSE IF ~Truthy(self.current_plan)
    THEN Outcome(self, Raise("ValueError", "No plan to implement"))
    ELSE Outcome([self EXCEPT !.plan_approved = FALSE],
                 Return(List(_generate_files_from_plan(
                     self.model_provider, self.current_plan.chars, output_dir))))

implement_plan(self, output_dir) ==
    IF ~self.plan_approved
    THEN Outcome(self, Raise("ValueError", "Plan must be approved before implementation"))
    ELSE IF ~Truthy(self.current_plan)
    THEN Outcome(self, Raise("ValueError", "No plan to implement"))
    ELSE Outcome(self, Return(List(_generate_files_from_plan(
                     self.model_provider, self.current_plan.chars, output_dir))))

----------------------------------------------------------------------------
\* ---- The disk ----
\* A node is a path as the operating system resolves it: its components from
\* the working directory down, empty and "." components dropped. The disk
\* maps the nodes that exist to a directory or to a file with its content;
\* the working directory <<>> always exists. Paths are relative.

Dir == [kind |-> "dir", content |-> <<>>]
File(content) == [kind |-> "file", content |-> content]

NodeOf(path) ==
    LET Push(r) == IF r.cur = <<>> \/ r.cur = <<".">> THEN r.done
                   ELSE Append(r.done, r.cur)
        walk[i \in 0..Len(path)] ==
            IF i = 0 THEN [done |-> <<>>, cur |-> <<>>]
            ELSE IF path[i] = SEP
                 THEN [done |-> Push(walk[i - 1]), cur |-> <<>>]
                 ELSE [done |-> walk[i - 1].done,
                       cur |-> Append(walk[i - 1].cur, path[i])]
    IN Push(walk[Len(path)])

Parent(node) == SubSeq(node, 1, Len(node) - 1)

\* os.path.exists, os.path.isdir
Exists(disk, node) == node = <<>> \/ node \in DOMAIN disk
IsDir(disk, node) == node = <<>> \/ (node \in DOMAIN disk /\ disk[node].kind = "dir")

Put(disk, node, entry) ==
    [n \in DOMAIN disk \cup {node} |-> IF n = node THEN entry ELSE disk[n]]

\* os.path.dirname(path) or "."
RECURSIVE RStripSep(_)
RStripSep(s) ==
    IF s # <<>> /\ s[Len(s)] = SEP THEN RStripSep(SubSeq(s, 1, Len(s) - 1)) ELSE s

dirname(path) ==
    LET seps == {i \in 1..Len(path) : path[i] = SEP}
        head == IF seps = {} THEN <<>>
                ELSE SubSeq(path, 1, CHOOSE i \in seps : \A k \in seps : k <= i)
        stripped == IF RStripSep(head) = <<>> THEN head ELSE RStripSep(head)
    IN IF stripped = <<>> THEN <<".">> ELSE stripped

\* The outcome of a step on the disk.
DiskOk(disk) == [disk |-> disk, raised |-> "none", message |-> ""]
DiskError(disk, type, msg) == [disk |-> disk, raised |-> type, message |-> msg]

\* os.makedirs(name, exist_ok=True): the missing ancestors first, then the
\* directory itself; an existing directory is accepted, an existing file at
\* the place of a directory is not.
\* os.mkdir in the place of os.makedirs: the ancestors are not created.
makedirs_single_level(disk, node) ==
    IF node = <<>> THEN DiskOk(disk)
    ELSE IF Exists(disk, node)
         THEN IF IsDir(disk, node) THEN DiskOk(disk)
              ELSE DiskError(disk, "FileExistsError", "File exists")
    ELSE IF ~Exists(disk, Parent(node))
         THEN DiskError(disk, "FileNotFoundError", "No such file or directory")
    ELSE IF ~IsDir(disk, Parent(node))
         THEN DiskError(disk, "NotADirectoryError", "Not a directory")
    ELSE DiskOk(Put(disk, node, Dir))

RECURSIVE makedirs(_, _)
makedirs(disk, node) ==
    IF node = <<>> THEN DiskOk(disk)
    ELSE LET above == IF Parent(node) # <<>> /\ ~Exists(disk, Parent(node))
                      THEN makedirs(disk, Parent(node))
                      ELSE DiskOk(disk)
         IN IF above.raised # "none" THEN above
            ELSE IF Exists(above.disk, node)
                 THEN IF IsDir(above.disk, node) THEN above
                      ELSE DiskError(above.disk, "FileExistsError", "File exists")
            ELSE IF ~IsDir(above.disk, Parent(node))
                 THEN DiskError(above.disk, "NotADirectoryError", "Not a directory")
            ELSE DiskOk(Put(above.disk, node, Dir))

\* open(path, 'a'): the content is added to what the file holds.
open_write_appends(disk, node, content) ==
    IF IsDir(disk, node)
    THEN DiskError(disk, "IsADirectoryError", "Is a directory")
    ELSE IF ~Exists(disk, Parent(node))
    THEN DiskError(disk, "FileNotFoundError", "No such file or directory")
    ELSE IF ~IsDir(disk, Parent(node))
    THEN DiskError(disk, "NotADirectoryError", "Not a directory")
    ELSE DiskOk(Put(disk, node,
                    File((IF Exists(disk, node) THEN disk[node].content ELSE <<>>)
                         \o content)))

\* with open(path, 'w') as f: f.write(content)
open_write(disk, node, content) ==
    IF IsDir(disk, node)
    THEN DiskError(disk, "IsADirectoryError", "Is a directory")
    ELSE IF ~Exists(disk, Parent(node))
    THEN DiskError(disk, "FileNotFoundError", "No such file or directory")
    ELSE IF ~IsDir(disk, Parent(node))
    THEN DiskError(disk, "NotADirectoryError", "Not a directory")
    ELSE DiskOk(Put(disk, node, File(content)))

\* write_files(files, overwrite), from descriptor i on.
RECURSIVE write_files_from(_, _, _, _)
write_files_from(disk, files, overwrite, i) ==
    IF i > Len(files) THEN [disk |-> disk, out |-> Return(None), failed_at |-> 0]
    ELSE LET file == files[i]
             made == makedirs(disk, NodeOf(dirname(file.path)))
         IN IF made.raised # "none"
            THEN [disk |-> made.disk, out |-> Raise(made.raised, made.message),
                  failed_at |-> i]
            ELSE IF Exists(made.disk, NodeOf(file.path)) /\ ~overwrite
            THEN [disk |-> made.disk,
                  out |-> Raise("FileExistsError", "File already exists"),
                  failed_at |-> i]
            ELSE LET written == open_write(made.disk, NodeOf(file.path), file.content)
                 IN IF written.raised # "none"
                    THEN [disk |-> written.disk,
                          out |-> Raise(written.raised, written.message),
                          failed_at |-> i]
                    ELSE write_files_from(written.disk, files, overwrite, i + 1)

\* write_files without the check of line 299: existing files are replaced.
write_files_always_overwrites(disk, files, overwrite) ==
    write_files_from(disk, files, TRUE, 1)

\* write_files undoing its writes when it fails.
write_files_rolls_back(disk, files, overwrite) ==
    LET r == write_files_from(disk, files, overwrite, 1)
    IN IF r.failed_at # 0 THEN [r EXCEPT !.disk = disk] ELSE r

\* write_files letting the last descriptor win when the list names a path twice.
write_files_last_wins(disk, files, overwrite) ==
    write_files_from(disk, files,
                     overwrite \/ \E i, j \in 1..Len(files) :
                                      i # j /\ files[i].path = files[j].path,
                     1)

write_files(disk, files, overwrite) == write_files_from(disk, files, overwrite, 1)

NoFiles == [n \in {} |-> Dir]

\* No write_files call has been made, nothing is on the disk.
IdleDisk ==
    /\ fs = NoFiles
    /\ pre_fs = NoFiles
    /\ w_files = <<>>
    /\ w_overwrite = FALSE
    /\ failed_at = 0
    /\ n_writes = 0

\* No command is running.
IdleCli ==
    /\ cli = [cmd |-> "none", pc |-> "done", auto_approve |-> FALSE,
              overwrite |-> FALSE, confirm |-> "none", approved |-> FALSE,
              output_dir |-> <<".">>]
    /\ calls = <<>>

\* No second agent.
NoAgent == [tag |-> "absent"]

\* No provider has been called.
NoCall == [tag |-> "none"]

\* One agent, used by one caller at a time, and no provider object.
IdleOthers ==
    /\ other = NoAgent
    /\ threads = <<>>
    /\ prov = NoCall

----------------------------------------------------------------------------
\* ---- Inputs ----

MaxReqLen == 1

\* Sequences over S of length at most n.
RECURSIVE SeqsUpTo(_, _)
SeqsUpTo(S, n) ==
    IF n = 0 THEN {<<>>}
    ELSE LET shorter == SeqsUpTo(S, n - 1)
         IN shorter \cup {Append(t, x) : t \in shorter, x \in S}

ReqAtoms == {"calculator", TICK, ".py"}
Requirements == SeqsUpTo(ReqAtoms, MaxReqLen)

\* "local" stands for any selector the dispatch does not know.
Providers == {"mock", "openai", "anthropic", "local"}

\* Texts a hosted back end may answer with: empty, blank, one file named,
\* a file named twice and a second file.
HostedTexts ==
    { <<>>,
      <<" \n">>,
      <<"# Plan\n", TICK, "app", ".py", TICK>>,
      <<TICK, "app", ".py", TICK, " ", TICK, "app", ".py", TICK, " ",
        TICK, "conf", ".json", TICK>> }

Replies ==
    {[kind |-> "raise", content |-> None]}
        \cup {[kind |-> "content", content |-> c] :
                 c \in {None} \cup {Str(t) : t \in HostedTexts}}

Envs == [lib : BOOLEAN, key : BOOLEAN, reply : Replies]

OutputDirs == {<<".">>, <<"out">>, <<"out", SEP>>}

----------------------------------------------------------------------------
\* ---- The agent as a state machine: one call at a time ----

Self ==
    [model_provider |-> model_provider, current_plan |-> current_plan,
     plan_approved |-> plan_approved]

\* The agent after a call, and what the caller saw of it.
Called(name, a, r) ==
    /\ model_provider' = r.self.model_provider
    /\ current_plan' = r.self.current_plan
    /\ plan_approved' = r.self.plan_approved
    /\ op' = name
    /\ arg' = a
    /\ raised' = r.out.raised
    /\ message' = r.out.message
    /\ returned' = r.out.value
    /\ pre_plan' = current_plan
    /\ pre_approved' = plan_approved

NoResults == [d \in OutputDirs |-> None]

\* No generate_plan call has succeeded yet.
Never == [tag |-> "never"]

\* PlanningAgent(model_provider): any selector is accepted.
Init ==
    /\ model_provider \in Providers
    /\ current_plan = None
    /\ plan_approved = FALSE
    /\ op = "__init__"
    /\ arg = <<>>
    /\ raised = "none"
    /\ message = ""
    /\ returned = None
    /\ pre_plan = None
    /\ pre_approved = FALSE
    /\ synth_plan = None
    /\ last_generated = Never
    /\ approved_since = FALSE
    /\ rejected_since = FALSE
    /\ impl_results = NoResults
    /\ prev_files = None
    /\ IdleDisk
    /\ IdleCli
    /\ IdleOthers

\* agent.generate_plan(requirement), whoever calls it.
DoGeneratePlan(requirement, env) ==
    LET r == generate_plan(Self, requirement, env)
        ok == r.out.raised = "none"
    IN /\ Called("generate_plan", requirement, r)
       /\ synth_plan' = None
       /\ last_generated' = IF ok THEN r.out.value ELSE last_generated
       /\ approved_since' = IF ok THEN FALSE ELSE approved_since
       /\ rejected_since' = IF ok THEN FALSE ELSE rejected_since
       /\ impl_results' = IF ok THEN NoResults ELSE impl_results
       /\ prev_files' = None

\* agent.approve_plan(), whoever calls it.
DoApprovePlan ==
    LET r == approve_plan(Self)
        ok == r.out.raised = "none"
    IN /\ Called("approve_plan", <<>>, r)
       /\ synth_plan' = None
       /\ approved_since' = IF ok THEN TRUE ELSE approved_since
       /\ prev_files' = None
       /\ UNCHANGED <<last_generated, rejected_since, impl_results>>

\* agent.reject_plan(), whoever calls it.
DoRejectPlan ==
    LET r == reject_plan(Self)
    IN /\ Called("reject_plan", <<>>, r)
       /\ synth_plan' = None
       /\ approved_since' = FALSE
       /\ rejected_since' = TRUE
       /\ impl_results' = NoResults
       /\ prev_files' = None
       /\ UNCHANGED last_generated

\* agent.implement_plan(output_dir), whoever calls it.
DoImplementPlan(output_dir) ==
    LET r == implement_plan(Self, output_dir)
        ok == r.out.raised = "none"
    IN /\ Called("implement_plan", output_dir, r)
       /\ synth_plan' = IF ok THEN current_plan ELSE None
       /\ impl_results' = IF ok THEN [impl_results EXCEPT ![output_dir] = r.out.value]
                          ELSE impl_results
       /\ prev_files' = IF ok THEN impl_results[output_dir] ELSE None
       /\ UNCHANGED <<last_generated, approved_since, rejected_since>>

GeneratePlanCall ==
    /\ \E requirement \in Requirements, env \in Envs :
           DoGeneratePlan(requirement, env)
    /\ UNCHANGED <<wvars, cvars, xvars>>

ApprovePlanCall ==
    /\ DoApprovePlan
    /\ UNCHANGED <<wvars, cvars, xvars>>

RejectPlanCall ==
    /\ DoRejectPlan
    /\ UNCHANGED <<wvars, cvars, xvars>>

ImplementPlanCall ==
    /\ \E output_dir \in OutputDirs : DoImplementPlan(output_dir)
    /\ UNCHANGED <<wvars, cvars, xvars>>

Next ==
    \/ GeneratePlanCall
    \/ ApprovePlanCall
    \/ RejectPlanCall
    \/ ImplementPlanCall

Spec == Init /\ [][Next]_vars

----------------------------------------------------------------------------
\* ---- The workflow states of the specification ----

Present(plan) == Truthy(plan)
Empty == ~Present(current_plan) /\ ~plan_approved
Drafted == Present(current_plan) /\ ~plan_approved
Approved == Present(current_plan) /\ plan_approved

TypeOK ==
    /\ model_provider \in Providers
    /\ plan_approved \in BOOLEAN
    /\ current_plan.tag \in {"None", "str"}
    /\ returned.tag \in {"None", "str", "list"}
    /\ raised \in {"none", "ValueError", "ImportError", "BackendError"}

\* The workflow state the last call started from.
PreEmpty == ~Present(pre_plan) /\ ~pre_approved
PreDrafted == Present(pre_plan) /\ ~pre_approved
PreApproved == Present(pre_plan) /\ pre_approved

Succeeded(name) == op = name /\ raised = "none"
Failed(name) == op = name /\ raised # "none"
Unchanged == current_plan = pre_plan /\ plan_approved = pre_approved

----------------------------------------------------------------------------
\* ---- Claims ----

\* C1: in every state reachable by sequential generate_plan (succeeding or
\* failing), approve_plan, reject_plan and implement_plan calls, plan_approved
\* implies that current_plan is present (neither None nor empty).
C1_ApprovedImpliesPlan == plan_approved => Present(current_plan)

\* An approved agent on which a later generate_plan failed.
C1_Witness == plan_approved /\ Failed("generate_plan")

\* C2: implement_plan returns file descriptors only from Approved; called
\* from Empty or from Drafted it raises ValueError and returns no descriptors.
C2_ImplementOnlyFromApproved ==
    op = "implement_plan" =>
        /\ returned.tag = "list" => PreApproved
        /\ PreEmpty \/ PreDrafted =>
               raised = "ValueError" /\ returned.tag # "list"

\* implement_plan refused on a drafted plan.
C2_Witness ==
    op = "implement_plan" /\ PreDrafted /\ raised = "ValueError"
        /\ message = "Plan must be approved before implementation"

\* C3: every implement_plan call that succeeds synthesizes from the plan
\* stored by the most recent successful generate_plan, and approve_plan
\* succeeded after that generate_plan with no reject_plan and no other
\* successful generate_plan in between.
C3_ApprovalNeverCarriesOver ==
    Succeeded("implement_plan") =>
        /\ last_generated # Never
        /\ synth_plan = last_generated
        /\ approved_since

\* implement_plan succeeding on a hosted plan.
C3_Witness ==
    Succeeded("implement_plan") /\ model_provider = "openai"
        /\ synth_plan = last_generated /\ Len(returned.items) > 0

\* C4: a successful generate_plan from Empty, Drafted or Approved leaves the
\* agent in Drafted: current_plan is the returned plan text and plan_approved
\* is false.
C4_GenerateLeavesDrafted ==
    Succeeded("generate_plan") => Drafted /\ current_plan = returned

\* C5: when the provider fails during generate_plan (unknown selector,
\* missing credential, missing client library, the remote call raising), the
\* failure reaches the caller and current_plan and plan_approved keep their
\* values, in every prior state including Approved.
C5_FailedGenerateKeepsState ==
    Failed("generate_plan") => Unchanged /\ returned = None

\* The remote call raising on an approved agent.
C5_Witness ==
    Failed("generate_plan") /\ PreApproved /\ raised = "BackendError"

\* C6: when a hosted back end returns an unusable or empty result,
\* generate_plan surfaces an error and the state before the call is kept; an
\* empty plan is never committed as current_plan.
C6_EmptyResultIsAnError ==
    /\ Succeeded("generate_plan") => Present(returned)
    /\ current_plan # Str(<<>>)

\* C7: every call that fails with an invalid-operation error (approve_plan
\* from Empty, implement_plan from Empty or Drafted) leaves current_plan and
\* plan_approved as they were; approve_plan on a fresh agent fails and the
\* agent is still Empty.
C7_InvalidOperationKeepsState ==
    /\ op \in {"approve_plan", "implement_plan"} /\ raised # "none" =>
           raised = "ValueError" /\ Unchanged
    /\ op = "approve_plan" /\ PreEmpty => raised = "ValueError" /\ Empty
    /\ op = "implement_plan" /\ (PreEmpty \/ PreDrafted) => raised = "ValueError"

\* approve_plan refused on an agent whose fields were never changed.
C7_Witness ==
    Failed("approve_plan") /\ last_generated = Never /\ ~rejected_since
        /\ current_plan = None /\ ~plan_approved

\* C8: approve_plan succeeds in every state reached by a successful
\* generate_plan that reject_plan has not followed: it sets plan_approved,
\* leaves current_plan unchanged, and changes nothing when already Approved.
C8_ApproveSucceedsAfterGenerate ==
    op = "approve_plan" /\ last_generated # Never /\ ~rejected_since =>
        /\ raised = "none"
        /\ plan_approved
        /\ current_plan = pre_plan
        /\ PreApproved => Unchanged

\* C9: reject_plan succeeds from every state and leaves the agent Empty
\* (current_plan absent, plan_approved false); until the next successful
\* generate_plan every approve_plan and implement_plan call fails.
C9_RejectResets ==
    /\ op = "reject_plan" =>
           raised = "none" /\ current_plan = None /\ ~plan_approved
    /\ rejected_since => Empty
    /\ rejected_since /\ op \in {"approve_plan", "implement_plan"} =>
           raised = "ValueError"

\* approve_plan refused after the rejection of a generated plan.
C9_Witness ==
    rejected_since /\ last_generated # Never /\ Failed("approve_plan")

\* C10: implement_plan, succeeding or failing, leaves current_plan and
\* plan_approved unchanged; from Approved every call succeeds, and returns
\* the descriptor sequence the earlier calls returned for that output_dir.
C10_ImplementIsPure ==
    op = "implement_plan" =>
        /\ Unchanged
        /\ PreApproved => raised = "none"
        /\ raised = "none" /\ prev_files # None => returned = prev_files

\* A repeated implement_plan for one output_dir, returning descriptors.
C10_Witness ==
    Succeeded("implement_plan") /\ prev_files # None
        /\ Len(returned.items) > 0 /\ Approved

\* C11: in sequential use the second guard of implement_plan is unreachable:
\* no sequence of generate_plan, approve_plan, reject_plan and implement_plan
\* calls makes implement_plan fail with "No plan to implement".
C11_SecondGuardUnreachable ==
    /\ message # "No plan to implement"
    /\ Failed("implement_plan") =>
           message = "Plan must be approved before implementation"

\* implement_plan refused after an approved plan was rejected or replaced by
\* an empty one: the first guard answers.
C11_Witness ==
    Failed("implement_plan") /\ ~Present(current_plan)
        /\ last_generated # Never
        /\ message = "Plan must be approved before implementation"

\* C17: configuration errors (unknown provider selector, missing credential
\* of the selected hosted provider) are raised when the agent is constructed
\* and never later by a generate_plan call.
C17_ConfigErrorsAtConstruction ==
    op = "generate_plan" =>
        message \notin {"Unknown model provider",
                        "OPENAI_API_KEY environment variable not set",
                        "ANTHROPIC_API_KEY environment variable not set"}

----------------------------------------------------------------------------
\* ---- File synthesis on its own: implement_plan over bounded plan texts ----

MaxPlanLen == 6

PlanAtoms == {TICK, "app", ".py"}

\* Plans a hosted back end can have answered with and the agent approved.
PlanTexts ==
    (SeqsUpTo(PlanAtoms, MaxPlanLen) \cup HostedTexts
        \cup { <<TICK, "app", ".yml", TICK>>,
               <<TICK, "a", ".py", TICK, "b", ".py", TICK>>,
               <<TICK, "docs", SEP, "README", ".md", TICK, TICK, "a", ".txt", TICK>>,
               <<TICK, "c", ".yaml", TICK, "x", TICK, "d", ".json", TICK>>,
               <<TICK, "a", ".py", TICK, " ", TICK, "b", ".py", TICK>>,
               <<TICK, "a", ".json", TICK, " ", TICK, "b", ".json", TICK>> })
        \ {<<>>}

\* The agent after generate_plan stored the plan and approve_plan accepted it.
InitSynth ==
    /\ model_provider \in {"openai", "anthropic"}
    /\ \E t \in PlanTexts :
           /\ current_plan = Str(t)
           /\ pre_plan = Str(t)
           /\ last_generated = Str(t)
    /\ plan_approved = TRUE
    /\ op = "approve_plan"
    /\ arg = <<>>
    /\ raised = "none"
    /\ message = ""
    /\ returned = None
    /\ pre_approved = FALSE
    /\ synth_plan = None
    /\ approved_since = TRUE
    /\ rejected_since = FALSE
    /\ impl_results = NoResults
    /\ prev_files = None
    /\ IdleDisk
    /\ IdleCli
    /\ IdleOthers

NextSynth == ImplementPlanCall

SpecSynth == InitSynth /\ [][NextSynth]_vars

\* The extensions of the file pattern, as the specification lists them.
ClaimExts == {".py", ".md", ".txt", ".json", ".yaml"}

\* A back-quoted token ending in one of the extensions opens at position i.
OpensToken(text, i) ==
    /\ text[i] = TICK
    /\ \E j \in (i + 3)..Len(text) :
           /\ text[j] = TICK
           /\ \A k \in (i + 1)..(j - 1) : text[k] # TICK
           /\ text[j - 1] \in ClaimExts

ClosingTick(text, i) ==
    CHOOSE j \in (i + 1)..Len(text) :
        text[j] = TICK /\ \A k \in (i + 1)..(j - 1) : text[k] # TICK

\* The tokens in order of appearance: a token counts when it opens after the
\* close of the token counted before it.
TokensIn(text) ==
    LET scan[i \in 0..Len(text)] ==
            IF i = 0 THEN [names |-> <<>>, closed |-> 0]
            ELSE LET before == scan[i - 1]
                 IN IF OpensToken(text, i) /\ before.closed < i
                    THEN [names |-> Append(before.names,
                                       SubSeq(text, i + 1, ClosingTick(text, i) - 1)),
                          closed |-> ClosingTick(text, i)]
                    ELSE before
    IN scan[Len(text)].names

\* C20: for a non-mock provider implement_plan returns one descriptor per
\* filename match in the plan text (back-quoted token ending in .py, .md,
\* .txt, .json or .yaml), in order of appearance, duplicates kept, each with
\* path join(output_dir, filename); a plan without a match gives an empty
\* list and no error.
C20_OneDescriptorPerMatch ==
    op = "implement_plan" /\ model_provider # "mock" /\ PreApproved =>
        LET names == TokensIn(pre_plan.chars)
        IN /\ raised = "none"
           /\ returned.tag = "list"
           /\ Len(returned.items) = Len(names)
           /\ \A k \in 1..Len(names) :
                  returned.items[k].path = PathJoin(arg, names[k])

\* Two descriptors for a file the plan names twice.
C20_Witness ==
    /\ Succeeded("implement_plan") /\ model_provider # "mock"
    /\ Len(returned.items) >= 2
    /\ returned.items[1].path = returned.items[2].path

\* The extension of a descriptor's path: its last atom.
ExtOf(file) == file.path[Len(file.path)]

\* C21: in non-mock synthesis the content of each descriptor is determined
\* solely by the file's extension: any two matched filenames with the same
\* extension get identical content.
C21_ContentByExtensionOnly ==
    Succeeded("implement_plan") /\ model_provider # "mock" =>
        \A k, l \in 1..Len(returned.items) :
            ExtOf(returned.items[k]) = ExtOf(returned.items[l]) =>
                returned.items[k].content = returned.items[l].content

\* Two files of one extension whose content does not carry a name: this
\* much of the claim does hold.
C21_JsonWitness ==
    /\ Succeeded("implement_plan") /\ model_provider # "mock"
    /\ Len(returned.items) = 2
    /\ returned.items[1].path # returned.items[2].path
    /\ ExtOf(returned.items[1]) = ".json" /\ ExtOf(returned.items[2]) = ".json"
    /\ returned.items[1].content = returned.items[2].content

----------------------------------------------------------------------------
\* ---- The file writer on its own: write_files over bounded descriptor lists ----

MaxFiles == 2
MaxWrites == 1

\* Paths of descriptors: at the top, nested one and two directories deep, the
\* top-level file spelled with a leading "./", and the directory "d" itself.
WritePaths ==
    { <<"a", ".py">>,
      <<".", SEP, "a", ".py">>,
      <<"d", SEP, "a", ".py">>,
      <<"d", SEP, "e", SEP, "b", ".py">>,
      <<"d">> }

WriteContents == {<<"new content 1">>, <<"new content 2">>}

Descriptors ==
    {FileToGenerate(p, c, <<"Test file">>) : p \in WritePaths, c \in WriteContents}

DescriptorLists == SeqsUpTo(Descriptors, MaxFiles)

Old == <<"existing content">>

\* What may be on the disk before the first call.
InitialDisks ==
    { NoFiles,
      Put(NoFiles, <<<<"a", ".py">>>>, File(Old)),
      Put(NoFiles, <<<<"d">>>>, Dir),
      Put(NoFiles, <<<<"d">>>>, File(Old)),
      Put(Put(Put(NoFiles, <<<<"d">>>>, Dir),
              <<<<"d">>, <<"a", ".py">>>>, File(Old)),
          <<<<"d">>, <<"e">>>>, Dir) }

InitWrite ==
    /\ model_provider = "mock"
    /\ current_plan = None
    /\ plan_approved = FALSE
    /\ op = "__init__"
    /\ arg = <<>>
    /\ raised = "none"
    /\ message = ""
    /\ returned = None
    /\ pre_plan = None
    /\ pre_approved = FALSE
    /\ synth_plan = None
    /\ last_generated = Never
    /\ approved_since = FALSE
    /\ rejected_since = FALSE
    /\ impl_results = NoResults
    /\ prev_files = None
    /\ fs \in InitialDisks
    /\ pre_fs = fs
    /\ w_files = <<>>
    /\ w_overwrite = FALSE
    /\ failed_at = 0
    /\ n_writes = 0
    /\ IdleCli
    /\ IdleOthers

\* agent.write_files(files, overwrite): the agent's fields are not touched.
WriteFilesFor(files, overwrite, output_dir) ==
    LET r == write_files(fs, files, overwrite)
    IN /\ Called("write_files", output_dir, Outcome(Self, r.out))
       /\ fs' = r.disk
       /\ pre_fs' = fs
       /\ w_files' = files
       /\ w_overwrite' = overwrite
       /\ failed_at' = r.failed_at
       /\ n_writes' = n_writes + 1

WriteFiles(files, overwrite) == WriteFilesFor(files, overwrite, <<>>)

WriteFilesCall ==
    /\ n_writes < MaxWrites
    /\ \E files \in DescriptorLists, overwrite \in BOOLEAN :
           WriteFiles(files, overwrite)
    /\ UNCHANGED <<synth_plan, last_generated, approved_since, rejected_since,
                   impl_results, prev_files, cvars, xvars>>

NextWrite == WriteFilesCall

SpecWrite == InitWrite /\ [][NextWrite]_vars

\* On the disk every node lies in a directory.
DiskWellFormed ==
    \A n \in DOMAIN fs : IsDir(fs, Parent(n))

\* The place of descriptor i of the last write_files call.
WNode(i) == NodeOf(w_files[i].path)

\* The directories above a node, the working directory excepted.
AncestorsOf(n) == {SubSeq(n, 1, k) : k \in 1..(Len(n) - 1)}

\* The call got as far as descriptor i.
Reached(i) == failed_at = 0 \/ failed_at >= i

\* Descriptor i was written by the call.
Written(i) == failed_at = 0 \/ i < failed_at

\* Something is at the place of descriptor i when the call gets there: it was
\* on the disk before the call, or an earlier descriptor of the call put a
\* file or a directory there.
ExistsWhenReached(i) ==
    \/ Exists(pre_fs, WNode(i))
    \/ \E j \in 1..(i - 1) :
           WNode(j) = WNode(i) \/ WNode(i) \in AncestorsOf(WNode(j))

\* A regular file stands where descriptor j needs a directory: it was on the
\* disk before the call, or an earlier descriptor of the call wrote it.
UnderAFile(j) ==
    \E a \in AncestorsOf(WNode(j)) :
        \/ Exists(pre_fs, a) /\ ~IsDir(pre_fs, a)
        \/ \E k \in 1..(j - 1) : WNode(k) = a

\* The content of the last descriptor before index i at the place n.
LastContent(n, i) ==
    LET W == {j \in 1..(i - 1) : WNode(j) = n}
    IN w_files[CHOOSE j \in W : \A k \in W : k <= j].content

\* The disk is the disk before the call with exactly the descriptors before
\* index i written, and their directories made.
OnlyPrefixWritten(i) ==
    /\ DOMAIN pre_fs \subseteq DOMAIN fs
    /\ \A n \in DOMAIN fs :
           IF \E j \in 1..(i - 1) : WNode(j) = n
           THEN fs[n] = File(LastContent(n, i))
           ELSE IF n \in DOMAIN pre_fs THEN fs[n] = pre_fs[n]
           ELSE fs[n] = Dir /\ \E j \in 1..(i - 1) : n \in AncestorsOf(WNode(j))

C13_NoRollback ==
    op = "write_files" /\ raised = "FileExistsError" =>
        /\ failed_at \in 1..Len(w_files)
        /\ \A j \in 1..(failed_at - 1) :
               /\ WNode(j) \in DOMAIN fs
               /\ fs[WNode(j)].kind = "file"
               /\ ~w_overwrite => fs[WNode(j)] = File(w_files[j].content)
        /\ OnlyPrefixWritten(failed_at)

\* The first descriptor made a directory and a new file, the second one hit
\* that file.
C13_Witness ==
    /\ op = "write_files" /\ raised = "FileExistsError" /\ failed_at = 2
    /\ ~Exists(pre_fs, WNode(1)) /\ Len(WNode(1)) >= 2
    /\ ~Exists(pre_fs, Parent(WNode(1)))
    /\ fs[WNode(1)] = File(w_files[1].content)
    /\ WNode(2) = WNode(1) /\ w_files[2].content # w_files[1].content

\* C14, as claimed: write_files(files, overwrite=True) never raises a
\* file-exists error, and after the call each path named in files holds the
\* content of the last descriptor in the list with that path.
C14_OverwriteAlwaysReplaces ==
    op = "write_files" /\ w_overwrite =>
        /\ raised # "FileExistsError"
        /\ \A i \in 1..Len(w_files) :
               /\ WNode(i) \in DOMAIN fs
               /\ fs[WNode(i)] = File(LastContent(WNode(i), Len(w_files) + 1))

\* C14, amended: write_files(files, overwrite=True) never raises the
\* file-exists error of its own check ("File already exists"); when it
\* returns, each path named in files holds the content of the last
\* descriptor in the list with that path, whatever was there before; it can
\* still fail in os.makedirs or open (FileExistsError when the directory of a
\* path is a regular file, NotADirectoryError, IsADirectoryError).
C14_OverwriteReplacesWhenItReturns ==
    op = "write_files" /\ w_overwrite =>
        /\ message # "File already exists"
        /\ raised \in {"none", "FileExistsError", "NotADirectoryError",
                       "IsADirectoryError"}
        /\ raised = "FileExistsError" =>
               ~IsDir(pre_fs, Parent(WNode(failed_at)))
        /\ raised = "none" =>
               \A i \in 1..Len(w_files) :
                   /\ WNode(i) \in DOMAIN fs
                   /\ fs[WNode(i)] = File(LastContent(WNode(i), Len(w_files) + 1))

\* A file that was there before, replaced by the call.
C14_Witness ==
    /\ op = "write_files" /\ w_overwrite /\ raised = "none"
    /\ \E i \in 1..Len(w_files) :
           /\ Exists(pre_fs, WNode(i)) /\ pre_fs[WNode(i)] = File(Old)
           /\ fs[WNode(i)] = File(w_files[i].content)

\* C15: for every descriptor write_files writes, the missing ancestor
\* directories of its path are made before the file is written, and a parent
\* directory that is already there is not an error; after a successful call
\* every descriptor's file and all its ancestor directories exist.
C15_DirectoriesCreated ==
    op = "write_files" =>
        /\ DiskWellFormed
        /\ raised # "FileNotFoundError"
        /\ \A i \in 1..Len(w_files) :
               Written(i) =>
                   /\ WNode(i) \in DOMAIN fs /\ fs[WNode(i)].kind = "file"
                   /\ \A a \in AncestorsOf(WNode(i)) : IsDir(fs, a)
        /\ failed_at # 0
               /\ (\/ IsDir(pre_fs, Parent(WNode(failed_at)))
                   \/ \E j \in 1..(failed_at - 1) :
                          Parent(WNode(failed_at)) \in AncestorsOf(WNode(j)))
               => /\ message # "File exists"
                  /\ raised \in {"FileExistsError", "IsADirectoryError"}

\* A file written two directories deep where nothing was before, next to one
\* whose directory was already there.
C15_Witness ==
    /\ op = "write_files" /\ raised = "none" /\ Len(w_files) = 2
    /\ Len(WNode(1)) = 3 /\ ~Exists(pre_fs, <<WNode(1)[1]>>)
    /\ fs[WNode(1)] = File(w_files[1].content)
    /\ Parent(WNode(2)) = <<WNode(1)[1]>>
    /\ fs[WNode(2)].kind = "file"

----------------------------------------------------------------------------
\* ---- The whole workflow: the agent's calls, and the caller writing the
\* ---- descriptors implement_plan returned ----

\* What may be on the disk before: nothing, the directory "out", a file in
\* it or at the top that the mock files would hit, a regular file named "out".
FlowDisks ==
    { NoFiles,
      Put(NoFiles, <<<<"out">>>>, Dir),
      Put(Put(NoFiles, <<<<"out">>>>, Dir),
          <<<<"out">>, <<"main", ".py">>>>, File(Old)),
      Put(NoFiles, <<<<"README", ".md">>>>, File(Old)),
      Put(NoFiles, <<<<"out">>>>, File(Old)) }

InitFlow ==
    /\ model_provider = "mock"
    /\ current_plan = None
    /\ plan_approved = FALSE
    /\ op = "__init__"
    /\ arg = <<>>
    /\ raised = "none"
    /\ message = ""
    /\ returned = None
    /\ pre_plan = None
    /\ pre_approved = FALSE
    /\ synth_plan = None
    /\ last_generated = Never
    /\ approved_since = FALSE
    /\ rejected_since = FALSE
    /\ impl_results = NoResults
    /\ prev_files = None
    /\ fs \in FlowDisks
    /\ pre_fs = fs
    /\ w_files = <<>>
    /\ w_overwrite = FALSE
    /\ failed_at = 0
    /\ n_writes = 0
    /\ IdleCli
    /\ IdleOthers

\* files = agent.implement_plan(output_dir); agent.write_files(files, overwrite)
WriteReturnedCall ==
    /\ Succeeded("implement_plan")
    /\ n_writes < MaxWrites
    /\ \E overwrite \in BOOLEAN : WriteFilesFor(returned.items, overwrite, arg)
    /\ UNCHANGED <<synth_plan, last_generated, approved_since, rejected_since,
                   impl_results, prev_files, cvars, xvars>>

NextFlow ==
    \/ GeneratePlanCall
    \/ ApprovePlanCall
    \/ RejectPlanCall
    \/ ImplementPlanCall
    \/ WriteReturnedCall

SpecFlow == InitFlow /\ [][NextFlow]_vars

\* The three files of the mock provider below the directory dir.
MockTargets(dir) ==
    [n \in {dir \o <<<<"main", ".py">>>>, dir \o <<<<"utils", ".py">>>>,
            dir \o <<<<"README", ".md">>>>} |->
        IF n = dir \o <<<<"main", ".py">>>> THEN File(<<"MAIN_PY_TEMPLATE">>)
        ELSE IF n = dir \o <<<<"utils", ".py">>>> THEN File(<<"UTILS_PY_TEMPLATE">>)
        ELSE File(<<"README_MD_TEMPLATE">>)]

\* dir is, or can be made, a directory and none of the targets is there.
FreshOutputDir(disk, dir) ==
    /\ \A k \in 1..Len(dir) :
           LET a == SubSeq(dir, 1, k) IN ~Exists(disk, a) \/ IsDir(disk, a)
    /\ \A n \in DOMAIN MockTargets(dir) : ~Exists(disk, n)

\* C16: for the mock provider, any requirement and any output directory in
\* which the target paths do not exist yet, generate_plan, approve_plan,
\* implement_plan(dir), write_files(files) succeed and create exactly three
\* files, dir/main.py, dir/utils.py and dir/README.md, each non-empty and
\* equal to its mock template.
C16_MockRoundTrip ==
    /\ op = "generate_plan" => raised = "none" /\ Drafted
    /\ op = "approve_plan" /\ PreDrafted => raised = "none" /\ Approved
    /\ op = "implement_plan" /\ PreApproved =>
           raised = "none" /\ Len(returned.items) = 3
    /\ op = "write_files" /\ FreshOutputDir(pre_fs, NodeOf(arg)) =>
           LET targets == MockTargets(NodeOf(arg))
           IN /\ raised = "none"
              /\ \A n \in DOMAIN targets :
                     /\ n \in DOMAIN fs
                     /\ fs[n] = targets[n]
                     /\ fs[n].content # <<>>
              /\ {n \in DOMAIN fs : fs[n].kind = "file"}
                     \ {n \in DOMAIN pre_fs : pre_fs[n].kind = "file"}
                 = DOMAIN targets
              /\ \A n \in DOMAIN pre_fs : fs[n] = pre_fs[n]

\* The three files written into a directory that the call had to make.
C16_Witness ==
    /\ op = "write_files" /\ raised = "none" /\ ~w_overwrite
    /\ arg = <<"out">> /\ ~Exists(pre_fs, <<<<"out">>>>)
    /\ fs[<<<<"out">>, <<"main", ".py">>>>] = File(<<"MAIN_PY_TEMPLATE">>)
    /\ fs[<<<<"out">>, <<"utils", ".py">>>>] = File(<<"UTILS_PY_TEMPLATE">>)
    /\ fs[<<<<"out">>, <<"README", ".md">>>>] = File(<<"README_MD_TEMPLATE">>)

----------------------------------------------------------------------------
\* ---- The commands of cli.py: "run" and "plan", one step per call they
\* ---- make on the agent or on the terminal ----

\* --model is a click.Choice.
CliModels == {"mock", "openai", "anthropic"}

\* The options a command starts with; "plan" has only the model.
CliStarts ==
    { [cmd |-> "plan", pc |-> "generate", auto_approve |-> FALSE,
       overwrite |-> FALSE, confirm |-> "none", approved |-> FALSE,
       output_dir |-> <<".">>] }
    \cup
    { [cmd |-> "run", pc |-> "generate", auto_approve |-> a, overwrite |-> o,
       confirm |-> "none", approved |-> FALSE, output_dir |-> d] :
           a \in BOOLEAN, o \in BOOLEAN, d \in OutputDirs }

\* agent = PlanningAgent(model_provider=model), at the start of a command.
InitCli ==
    /\ model_provider \in CliModels
    /\ current_plan = None
    /\ plan_approved = FALSE
    /\ op = "__init__"
    /\ arg = <<>>
    /\ raised = "none"
    /\ message = ""
    /\ returned = None
    /\ pre_plan = None
    /\ pre_approved = FALSE
    /\ synth_plan = None
    /\ last_generated = Never
    /\ approved_since = FALSE
    /\ rejected_since = FALSE
    /\ impl_results = NoResults
    /\ prev_files = None
    /\ fs \in FlowDisks
    /\ pre_fs = fs
    /\ w_files = <<>>
    /\ w_overwrite = FALSE
    /\ failed_at = 0
    /\ n_writes = 0
    /\ cli \in CliStarts
    /\ calls = <<>>
    /\ IdleOthers

\* The command has made a call on the agent; an exception that the command
\* does not catch ends it.
Logged(name, next) ==
    /\ calls' = Append(calls, [name |-> name, ok |-> raised' = "none"])
    /\ cli' = [cli EXCEPT !.pc = IF raised' = "none" THEN next ELSE "crashed"]

AgentHistory ==
    <<synth_plan, last_generated, approved_since, rejected_since,
      impl_results, prev_files>>

AgentCall ==
    <<model_provider, current_plan, plan_approved, op, arg, raised, message,
      returned, pre_plan, pre_approved>>

\* Markdown(plan) of the rich library: a str is rendered; what it does with
\* None is the library's business, it renders or it raises.
Rendered(next) ==
    /\ \E shown \in IF returned.tag = "str" THEN {TRUE} ELSE BOOLEAN :
           cli' = [cli EXCEPT !.pc = IF shown THEN next ELSE "crashed"]
    /\ UNCHANGED <<AgentCall, AgentHistory, wvars, calls, xvars>>

\* plan: plan_text = agent.generate_plan(requirement)
PlanGenerate ==
    /\ cli.cmd = "plan" /\ cli.pc = "generate"
    /\ \E requirement \in Requirements, env \in Envs :
           DoGeneratePlan(requirement, env)
    /\ Logged("generate_plan", "render")
    /\ UNCHANGED <<wvars, xvars>>

\* A plan command that goes on as run does after the plan is shown.
PlanRender_then_approves ==
    /\ cli.cmd = "plan" /\ cli.pc = "render"
    /\ Rendered("approve")

\* plan: the panel with the plan; the command ends.
PlanRender ==
    /\ cli.cmd = "plan" /\ cli.pc = "render"
    /\ Rendered("done")

\* run: plan = agent.generate_plan(requirement)
RunGenerate ==
    /\ cli.cmd = "run" /\ cli.pc = "generate"
    /\ \E requirement \in Requirements, env \in Envs :
           DoGeneratePlan(requirement, env)
    /\ Logged("generate_plan", "render")
    /\ UNCHANGED <<wvars, xvars>>

\* run: the panel with the plan.
RunRender ==
    /\ cli.cmd = "run" /\ cli.pc = "render"
    /\ Rendered("ask")

\* A run that takes every answer for a yes.
RunAsk_ignores_answer ==
    /\ cli.pc = "ask"
    /\ \E answer \in IF cli.auto_approve THEN {"none"} ELSE {"yes", "no", "abort"} :
           cli' = [cli EXCEPT !.confirm = answer,
                              !.approved = answer # "abort",
                              !.pc = IF answer = "abort" THEN "crashed"
                                     ELSE "approve"]
    /\ UNCHANGED <<AgentCall, AgentHistory, wvars, calls, xvars>>

\* run: approved = True with --auto-approve, else the answer to Confirm.ask
\* (which the user may also abort); then the branch on "if not approved".
RunAsk ==
    /\ cli.pc = "ask"
    /\ \E answer \in IF cli.auto_approve THEN {"none"} ELSE {"yes", "no", "abort"} :
           LET approved == cli.auto_approve \/ answer = "yes"
           IN cli' = [cli EXCEPT !.confirm = answer,
                                 !.approved = approved,
                                 !.pc = IF answer = "abort" THEN "crashed"
                                        ELSE IF approved THEN "approve"
                                        ELSE "reject"]
    /\ UNCHANGED <<AgentCall, AgentHistory, wvars, calls, xvars>>

\* run: agent.reject_plan(); return
RunReject ==
    /\ cli.pc = "reject"
    /\ DoRejectPlan
    /\ Logged("reject_plan", "done")
    /\ UNCHANGED <<wvars, xvars>>

\* run: agent.approve_plan()
RunApprove ==
    /\ cli.pc = "approve"
    /\ DoApprovePlan
    /\ Logged("approve_plan", "implement")
    /\ UNCHANGED <<wvars, xvars>>

\* run: files = agent.implement_plan(output_dir=output_dir)
RunImplement ==
    /\ cli.pc = "implement"
    /\ DoImplementPlan(cli.output_dir)
    /\ Logged("implement_plan", "write")
    /\ UNCHANGED <<wvars, xvars>>

\* run: agent.write_files(files, overwrite=overwrite) inside try/except: the
\* command ends either way.
RunWrite ==
    /\ cli.pc = "write"
    /\ WriteFilesFor(returned.items, cli.overwrite, cli.output_dir)
    /\ calls' = Append(calls, [name |-> "write_files", ok |-> raised' = "none"])
    /\ cli' = [cli EXCEPT !.pc = "done"]
    /\ UNCHANGED <<AgentHistory, xvars>>

NextCli ==
    \/ PlanGenerate
    \/ PlanRender
    \/ RunGenerate
    \/ RunRender
    \/ RunAsk
    \/ RunReject
    \/ RunApprove
    \/ RunImplement
    \/ RunWrite

SpecCli == InitCli /\ [][NextCli]_vars

\* The names of the calls the command has made so far, in order.
CallNames == [i \in DOMAIN calls |-> calls[i].name]

\* C18: the "plan" command only calls generate_plan: on no execution path
\* does it call approve_plan, implement_plan or write_files, so it never
\* writes a file.
C18_PlanOnlyGenerates ==
    cli.cmd = "plan" =>
        /\ \A i \in DOMAIN calls : calls[i].name = "generate_plan"
        /\ op \in {"__init__", "generate_plan"}
        /\ plan_approved = FALSE
        /\ n_writes = 0
        /\ fs = pre_fs

\* A plan command that has shown its plan and ended.
C18_Witness ==
    /\ cli.cmd = "plan" /\ cli.pc = "done"
    /\ CallNames = <<"generate_plan">>
    /\ Drafted

\* C19: in the "run" command implement_plan and write_files are called only
\* after approve_plan has returned successfully, which happens only when the
\* auto-approve flag is set or the confirmation was answered yes; when the
\* confirmation is declined, reject_plan is called and the command ends with
\* no implement_plan or write_files call.
C19_RunGatedByApproval ==
    cli.cmd = "run" =>
        /\ \A i \in DOMAIN calls :
               calls[i].name \in {"implement_plan", "write_files"} =>
                   \E j \in 1..(i - 1) :
                       calls[j].name = "approve_plan" /\ calls[j].ok
        /\ \A j \in DOMAIN calls :
               calls[j].name = "approve_plan" =>
                   cli.auto_approve \/ cli.confirm = "yes"
        /\ op \in {"implement_plan", "write_files"} => approved_since
        /\ cli.confirm = "no" =>
               /\ cli.pc \in {"reject", "done"}
               /\ \A i \in DOMAIN calls :
                      calls[i].name \notin
                          {"approve_plan", "implement_plan", "write_files"}
               /\ cli.pc = "done" =>
                      /\ CallNames = <<"generate_plan", "reject_plan">>
                      /\ Empty
                      /\ fs = pre_fs /\ n_writes = 0

\* A run that was confirmed at the prompt and wrote its files.
C19_Witness ==
    /\ cli.cmd = "run" /\ cli.pc = "done"
    /\ ~cli.auto_approve /\ cli.confirm = "yes"
    /\ CallNames = <<"generate_plan", "approve_plan", "implement_plan",
                     "write_files">>
    /\ raised = "none"

\* A run that was declined at the prompt and ended.
C19_DeclinedWitness ==
    /\ cli.cmd = "run" /\ cli.pc = "done"
    /\ cli.confirm = "no"
    /\ CallNames = <<"generate_plan", "reject_plan">>

----------------------------------------------------------------------------
\* ---- Two agents side by side: the agent of the variables above and a
\* ---- second one, each called one call at a time ----

\* PlanningAgent(model_provider) for the second agent.
NewAgent(provider) ==
    [tag |-> "agent", model_provider |-> provider, current_plan |-> None,
     plan_approved |-> FALSE, op |-> "__init__", arg |-> <<>>,
     raised |-> "none", message |-> "", returned |-> None]

OtherSelf ==
    [model_provider |-> other.model_provider, current_plan |-> other.current_plan,
     plan_approved |-> other.plan_approved]

\* The second agent after a call, and what its caller saw of it.
OtherCalled(name, a, r) ==
    other' = [tag |-> "agent",
                 model_provider |-> r.self.model_provider,
                 current_plan |-> r.self.current_plan,
                 plan_approved |-> r.self.plan_approved,
                 op |-> name, arg |-> a,
                 raised |-> r.out.raised, message |-> r.out.message,
                 returned |-> r.out.value]

\* What a call on the second agent leaves alone.
OtherFrame == <<AgentCall, AgentHistory, wvars, cvars, threads, prov>>

\* Both agents use the mock provider.
InitPair ==
    /\ model_provider = "mock"
    /\ current_plan = None
    /\ plan_approved = FALSE
    /\ op = "__init__"
    /\ arg = <<>>
    /\ raised = "none"
    /\ message = ""
    /\ returned = None
    /\ pre_plan = None
    /\ pre_approved = FALSE
    /\ synth_plan = None
    /\ last_generated = Never
    /\ approved_since = FALSE
    /\ rejected_since = FALSE
    /\ impl_results = NoResults
    /\ prev_files = None
    /\ IdleDisk
    /\ IdleCli
    /\ other = NewAgent("mock")
    /\ threads = <<>>
    /\ prov = NoCall

\* The mock provider reads nothing outside the agent: one environment will do.
NoEnv == [lib |-> FALSE, key |-> FALSE,
          reply |-> [kind |-> "raise", content |-> None]]

FirstGeneratePlanCall ==
    /\ \E requirement \in Requirements : DoGeneratePlan(requirement, NoEnv)
    /\ UNCHANGED <<wvars, cvars, xvars>>

OtherGeneratePlanCall ==
    /\ \E requirement \in Requirements :
           OtherCalled("generate_plan", requirement,
                       generate_plan(OtherSelf, requirement, NoEnv))
    /\ UNCHANGED OtherFrame

OtherApprovePlanCall ==
    /\ OtherCalled("approve_plan", <<>>, approve_plan(OtherSelf))
    /\ UNCHANGED OtherFrame

OtherRejectPlanCall ==
    /\ OtherCalled("reject_plan", <<>>, reject_plan(OtherSelf))
    /\ UNCHANGED OtherFrame

OtherImplementPlanCall ==
    /\ \E output_dir \in OutputDirs :
           OtherCalled("implement_plan", output_dir,
                       implement_plan(OtherSelf, output_dir))
    /\ UNCHANGED OtherFrame

NextPair ==
    \/ FirstGeneratePlanCall
    \/ ApprovePlanCall
    \/ RejectPlanCall
    \/ ImplementPlanCall
    \/ OtherGeneratePlanCall
    \/ OtherApprovePlanCall
    \/ OtherRejectPlanCall
    \/ OtherImplementPlanCall

SpecPair == InitPair /\ [][NextPair]_vars

\* Both agents hold what implement_plan returned for the same output_dir.
BothImplemented ==
    /\ Succeeded("implement_plan")
    /\ other.op = "implement_plan" /\ other.raised = "none"
    /\ arg = other.arg

\* C22: with the mock provider the descriptors returned by implement_plan do
\* not depend on the plan text: for the same output_dir, two agents that
\* approved plans generated from different requirements get identical
\* descriptor sequences (same three paths, contents and descriptions, in the
\* same order).
C22_MockFilesIgnorePlan ==
    BothImplemented /\ model_provider = "mock" /\ other.model_provider = "mock" =>
        /\ returned = other.returned
        /\ Len(returned.items) = 3

\* Two agents with different plans and the same descriptors.
C22_Witness ==
    /\ BothImplemented
    /\ model_provider = "mock" /\ other.model_provider = "mock"
    /\ current_plan # other.current_plan
    /\ returned = other.returned
    /\ arg = <<"out">>

----------------------------------------------------------------------------
\* ---- write_files on lists that name a path twice (checked in SpecWrite) ----

\* None of the descriptor paths of the last call existed before it.
NoneExisted == \A i \in 1..Len(w_files) : ~Exists(pre_fs, WNode(i))

\* The paths of the last call are pairwise distinct, as strings.
PathsDistinct ==
    \A i, j \in 1..Len(w_files) : i # j => w_files[i].path # w_files[j].path

\* Descriptor j is the second occurrence of a path: the first repeat in the list.
SecondOccurrence(j) ==
    /\ \E i \in 1..(j - 1) : w_files[i].path = w_files[j].path
    /\ \A k \in 1..(j - 1) : \A i \in 1..(k - 1) : w_files[i].path # w_files[k].path

\* The descriptors of the last call are different files, none of them a
\* directory another one needs, and no regular file stands where one of them
\* needs a directory.
FilesApart ==
    /\ \A i, j \in 1..Len(w_files) :
           i # j => WNode(i) # WNode(j) /\ WNode(i) \notin AncestorsOf(WNode(j))
    /\ \A j \in 1..Len(w_files) : ~UnderAFile(j)

\* C23, as stated: for write_files(files, overwrite=False) where none of the
\* descriptor paths exists beforehand, the call succeeds if and only if the
\* paths in files are pairwise distinct; when a path occurs twice the call
\* raises a file-exists error at the second occurrence and the first
\* occurrence's content stays on disk.
C23_SucceedsIffDistinct ==
    op = "write_files" /\ ~w_overwrite /\ NoneExisted =>
        /\ raised = "none" <=> PathsDistinct
        /\ \A j \in 1..Len(w_files) :
               SecondOccurrence(j) =>
                   /\ failed_at = j
                   /\ raised = "FileExistsError"
                   /\ fs[WNode(j)] = File(LastContent(WNode(j), j))

\* C23, amended: under the same precondition the call succeeds only if the
\* paths are pairwise distinct, and it does succeed when they are different
\* files that do not stand in each other's way (FilesApart); when a path
\* occurs twice the call fails at the second occurrence or before it, and
\* when it fails there it is with the file-exists error of its own check and
\* the first occurrence's content stays on disk.
C23_DuplicateStopsTheCall ==
    op = "write_files" /\ ~w_overwrite /\ NoneExisted =>
        /\ raised = "none" => PathsDistinct
        /\ FilesApart => raised = "none"
        /\ \A j \in 1..Len(w_files) :
               SecondOccurrence(j) =>
                   /\ failed_at \in 1..j
                   /\ (\A k \in 1..(j - 1) : ~ExistsWhenReached(k) /\ ~UnderAFile(k))
                          => failed_at = j
                   /\ failed_at = j =>
                          /\ raised = "FileExistsError"
                          /\ message = "File already exists"
                          /\ fs[WNode(j)] = File(LastContent(WNode(j), j))

\* The same new path twice with two contents: the first one is on the disk.
C23_Witness ==
    /\ op = "write_files" /\ ~w_overwrite /\ NoneExisted
    /\ Len(w_files) = 2 /\ SecondOccurrence(2)
    /\ w_files[1].content # w_files[2].content
    /\ failed_at = 2 /\ raised = "FileExistsError"
    /\ fs[WNode(1)] = File(w_files[1].content)

----------------------------------------------------------------------------
\* ---- The plan providers of providers/ and the prompts of prompts.py ----

WhiteSpace == {" ", "\n", " \n"}

RECURSIVE lstrip(_)
lstrip(t) == IF t # <<>> /\ t[1] \in WhiteSpace THEN lstrip(Tail(t)) ELSE t

RECURSIVE rstrip(_)
rstrip(t) ==
    IF t # <<>> /\ t[Len(t)] \in WhiteSpace THEN rstrip(SubSeq(t, 1, Len(t) - 1))
    ELSE t

\* str.strip()
strip(t) == lstrip(rstrip(t))

\* a or b
Or(a, b) == IF Truthy(a) THEN a ELSE b

DEFAULT_PLAN_SYSTEM_PROMPT ==
    Str(<<"You are a senior software engineer and technical PM. ...", "\n">>)

\* load_prompt_text(prompt_file): Path(prompt_file).read_text() on the disk.
load_prompt_text(disk, prompt_file) ==
    IF ~Truthy(prompt_file) THEN Return(None)
    ELSE LET n == NodeOf(prompt_file.chars)
         IN IF ~Exists(disk, n) THEN Raise("FileNotFoundError", "No such file or directory")
            ELSE IF IsDir(disk, n) THEN Raise("IsADirectoryError", "Is a directory")
            ELSE Return(Str(disk[n].content))

\* No provider object: its constructor raised.
NoObject == [cls |-> "none"]

\* OpenAIPlanProvider(api_key, prompt_file, system_prompt, client); key says
\* whether api_key or OPENAI_API_KEY gives a key.
OpenAIPlanProvider_init(disk, key, prompt_file, system_prompt, client) ==
    IF ~key /\ client = None
    THEN Outcome(NoObject, Raise("ValueError", "OPENAI_API_KEY environment variable not set"))
    ELSE LET file_prompt == load_prompt_text(disk, prompt_file)
         IN IF file_prompt.raised # "none" THEN Outcome(NoObject, file_prompt)
            ELSE Outcome([cls |-> "openai", api_key |-> key,
                          system_prompt |->
                              Str(strip(Or(Or(file_prompt.value, system_prompt),
                                           DEFAULT_PLAN_SYSTEM_PROMPT).chars)),
                          client |-> client],
                         Return(None))

\* AnthropicPlanProvider(api_key, prompt_file, system_prompt)
AnthropicPlanProvider_init(disk, key, prompt_file, system_prompt) ==
    IF ~key
    THEN Outcome(NoObject, Raise("ValueError", "ANTHROPIC_API_KEY environment variable not set"))
    ELSE LET file_prompt == load_prompt_text(disk, prompt_file)
         IN IF file_prompt.raised # "none" THEN Outcome(NoObject, file_prompt)
            ELSE Outcome([cls |-> "anthropic", api_key |-> key,
                          system_prompt |->
                              Or(Str(strip(Or(Or(file_prompt.value, system_prompt),
                                              Str(<<>>)).chars)),
                                 None),
                          client |-> None],
                         Return(None))

\* MockPlanProvider()
MockPlanProvider_init ==
    Outcome([cls |-> "mock", api_key |-> FALSE, system_prompt |-> None,
             client |-> None],
            Return(None))

\* A call style the client does not have.
Absent == [kind |-> "absent", content |-> None]

\* The responses call answered with text that is not blank.
HasPlan(style) ==
    /\ style.kind = "content"
    /\ style.content.tag = "str"
    /\ strip(style.content.chars) # <<>>

\* OpenAIPlanProvider.generate_plan returning what the responses call gave,
\* without the fallback to chat completions.
OpenAIPlanProvider_generate_plan_no_fallback(self, requirement, lib, built) ==
    IF self.client = None /\ ~lib
    THEN Outcome(self, Raise("ImportError", "openai package not installed"))
    ELSE LET client == IF self.client # None THEN self.client ELSE built
             self1 == [self EXCEPT !.client = client]
         IN IF client.responses.kind = "raise"
            THEN Outcome(self1, Raise("BackendError", "remote call failed"))
            ELSE IF client.responses.kind = "content"
            THEN Outcome(self1, Return(Str(strip(Or(client.responses.content,
                                                    Str(<<>>)).chars))))
            ELSE IF client.chat.kind = "raise"
            THEN Outcome(self1, Raise("BackendError", "remote call failed"))
            ELSE IF client.chat.kind = "content"
            THEN Outcome(self1, Return(Str(strip(Or(client.chat.content,
                                                    Str(<<>>)).chars))))
            ELSE Outcome(self1, Raise("RuntimeError",
                     "OpenAI client does not support responses.create or chat.completions.create"))

\* OpenAIPlanProvider.generate_plan(requirement). lib: the openai package
\* imports; built: the client openai.OpenAI() gives when none was injected.
OpenAIPlanProvider_generate_plan(self, requirement, lib, built) ==
    IF self.client = None /\ ~lib
    THEN Outcome(self, Raise("ImportError", "openai package not installed"))
    ELSE LET client == IF self.client # None THEN self.client ELSE built
             self1 == [self EXCEPT !.client = client]
         IN IF client.responses.kind = "raise"
            THEN Outcome(self1, Raise("BackendError", "remote call failed"))
            ELSE IF HasPlan(client.responses)
            THEN Outcome(self1, Return(Str(strip(client.responses.content.chars))))
            ELSE IF client.chat.kind = "raise"
            THEN Outcome(self1, Raise("BackendError", "remote call failed"))
            ELSE IF client.chat.kind = "content"
            THEN Outcome(self1, Return(Str(strip(Or(client.chat.content,
                                                    Str(<<>>)).chars))))
            ELSE Outcome(self1, Raise("RuntimeError",
                     "OpenAI client does not support responses.create or chat.completions.create"))

\* AnthropicPlanProvider.generate_plan(requirement); reply.content is the
\* text of the first block of the message, None when there is none.
AnthropicPlanProvider_generate_plan(self, requirement, lib, reply) ==
    IF ~lib
    THEN Outcome(self, Raise("ImportError", "anthropic package not installed"))
    ELSE IF reply.kind = "raise"
    THEN Outcome(self, Raise("BackendError", "remote call failed"))
    ELSE Outcome(self, Return(Str(strip(Or(reply.content, Str(<<>>)).chars))))

\* MockPlanProvider.generate_plan(requirement)
MockPlanProvider_generate_plan(self, requirement) ==
    Outcome(self,
        Return(Str(<<"# Implementation Plan\n\n## Requirement\n">> \o requirement
                   \o <<"\n\n## Files\n- ",
                        TICK, "main", ".py", TICK, " - Main application entry point\n- ",
                        TICK, "utils", ".py", TICK, " - Utility functions\n- ",
                        TICK, "README", ".md", TICK, " - Documentation\n",
                        "\n## Steps ... ## Open Questions ...\n">>)))

\* ---- Inputs of the providers ----

\* Texts a call may answer with: a blank one and a plan in blank lines.
ProviderTexts ==
    { <<" \n">>,
      <<"\n", "# Plan", " \n">> }

ProviderReplies ==
    {[kind |-> "raise", content |-> None]}
        \cup {[kind |-> "content", content |-> c] :
                 c \in {None} \cup {Str(t) : t \in ProviderTexts}}

Styles == {Absent} \cup ProviderReplies

\* The clients of the tests: responses and chat.completions, each there or not.
Clients == [responses : Styles, chat : Styles]

\* The prompt files on the disk: one with a prompt, an empty one, a blank one.
PromptDisk ==
    Put(Put(Put(NoFiles, <<<<"prompt", ".txt">>>>, File(<<"file prompt", "\n">>)),
            <<<<"empty", ".txt">>>>, File(<<>>)),
        <<<<"blank", ".txt">>>>, File(<<" \n">>))

PromptFileArgs ==
    {None, Str(<<>>), Str(<<"prompt", ".txt">>), Str(<<"empty", ".txt">>),
     Str(<<"blank", ".txt">>), Str(<<"missing", ".txt">>)}

SystemPromptArgs == {None, Str(<<" ", "override prompt">>)}

\* ---- The providers as a state machine: constructed, then called ----

\* The provider after a call, with what went in and what came out.
ProviderCalled(name, args, r, used) ==
    prov' = [tag |-> "provider", self |-> r.self, op |-> name, args |-> args,
             used |-> used, raised |-> r.out.raised, message |-> r.out.message,
             returned |-> r.out.value]

\* What a call on a provider leaves alone.
ProviderFrame == <<AgentCall, AgentHistory, wvars, cvars, other, threads>>

NoArgs ==
    [key |-> FALSE, prompt_file |-> None, system_prompt |-> None,
     client |-> None, requirement |-> <<>>]

InitProvider ==
    /\ model_provider = "mock"
    /\ current_plan = None
    /\ plan_approved = FALSE
    /\ op = "__init__"
    /\ arg = <<>>
    /\ raised = "none"
    /\ message = ""
    /\ returned = None
    /\ pre_plan = None
    /\ pre_approved = FALSE
    /\ synth_plan = None
    /\ last_generated = Never
    /\ approved_since = FALSE
    /\ rejected_since = FALSE
    /\ impl_results = NoResults
    /\ prev_files = None
    /\ fs = PromptDisk
    /\ pre_fs = PromptDisk
    /\ w_files = <<>>
    /\ w_overwrite = FALSE
    /\ failed_at = 0
    /\ n_writes = 0
    /\ IdleCli
    /\ other = NoAgent
    /\ threads = <<>>
    /\ prov = NoCall

OpenAIInitCall ==
    /\ \E key \in BOOLEAN, prompt_file \in PromptFileArgs,
          system_prompt \in SystemPromptArgs, client \in {None} \cup Clients :
           ProviderCalled("__init__",
               [NoArgs EXCEPT !.key = key, !.prompt_file = prompt_file,
                              !.system_prompt = system_prompt, !.client = client],
               OpenAIPlanProvider_init(fs, key, prompt_file, system_prompt, client),
               None)
    /\ UNCHANGED ProviderFrame

AnthropicInitCall ==
    /\ \E key \in BOOLEAN, prompt_file \in PromptFileArgs,
          system_prompt \in SystemPromptArgs :
           ProviderCalled("__init__",
               [NoArgs EXCEPT !.key = key, !.prompt_file = prompt_file,
                              !.system_prompt = system_prompt],
               AnthropicPlanProvider_init(fs, key, prompt_file, system_prompt),
               None)
    /\ UNCHANGED ProviderFrame

MockInitCall ==
    /\ ProviderCalled("__init__", NoArgs, MockPlanProvider_init, None)
    /\ UNCHANGED ProviderFrame

OpenAIGeneratePlanCall ==
    /\ prov.tag = "provider" /\ prov.self.cls = "openai"
    /\ \E requirement \in Requirements, lib \in BOOLEAN, built \in Clients :
           LET r == OpenAIPlanProvider_generate_plan(prov.self, requirement, lib, built)
           IN ProviderCalled("generate_plan",
                             [NoArgs EXCEPT !.requirement = requirement],
                             r, r.self.client)
    /\ UNCHANGED ProviderFrame

AnthropicGeneratePlanCall ==
    /\ prov.tag = "provider" /\ prov.self.cls = "anthropic"
    /\ \E requirement \in Requirements, lib \in BOOLEAN, reply \in ProviderReplies :
           ProviderCalled("generate_plan",
                          [NoArgs EXCEPT !.requirement = requirement],
                          AnthropicPlanProvider_generate_plan(prov.self, requirement,
                                                              lib, reply),
                          IF lib THEN [responses |-> Absent, chat |-> reply] ELSE None)
    /\ UNCHANGED ProviderFrame

MockGeneratePlanCall ==
    /\ prov.tag = "provider" /\ prov.self.cls = "mock"
    /\ \E requirement \in Requirements :
           ProviderCalled("generate_plan",
                          [NoArgs EXCEPT !.requirement = requirement],
                          MockPlanProvider_generate_plan(prov.self, requirement),
                          None)
    /\ UNCHANGED ProviderFrame

NextProvider ==
    \/ OpenAIInitCall
    \/ AnthropicInitCall
    \/ MockInitCall
    \/ OpenAIGeneratePlanCall
    \/ AnthropicGeneratePlanCall
    \/ MockGeneratePlanCall

SpecProvider == InitProvider /\ [][NextProvider]_vars

\* The last call was OpenAIPlanProvider.generate_plan and it had a client.
OpenAIGenerated ==
    /\ prov.tag = "provider" /\ prov.self.cls = "openai"
    /\ prov.op = "generate_plan"
    /\ prov.used # None

\* The call style is there and answered with a string that is not empty.
NonEmptyText(style) ==
    style.kind = "content" /\ style.content.tag = "str" /\ style.content.chars # <<>>

\* The call style is there and answered with a string that is not blank.
NonBlankText(style) ==
    NonEmptyText(style) /\ \E k \in DOMAIN style.content.chars :
                               style.content.chars[k] \notin WhiteSpace

\* The text between the first and the last atom that is not white space.
Trimmed(t) ==
    LET I == {k \in DOMAIN t : t[k] \notin WhiteSpace}
    IN IF I = {} THEN <<>>
       ELSE SubSeq(t, CHOOSE k \in I : \A l \in I : k <= l,
                      CHOOSE k \in I : \A l \in I : l <= k)

\* The text of an answer, the empty string when the answer has none.
TextOf(style) == IF style.content.tag = "str" THEN style.content.chars ELSE <<>>

RuntimeErrorRaised ==
    /\ prov.raised = "RuntimeError"
    /\ prov.message =
           "OpenAI client does not support responses.create or chat.completions.create"

C25_RuntimeErrorOnlyWithoutCallStyles ==
    OpenAIGenerated /\ RuntimeErrorRaised =>
        prov.used.responses.kind = "absent" /\ prov.used.chat.kind = "absent"

\* The last call constructed a hosted provider.
HostedConstructed ==
    /\ prov.tag = "provider" /\ prov.op = "__init__" /\ prov.raised = "none"
    /\ prov.self.cls \in {"openai", "anthropic"}

\* C26: for both hosted providers the system/instruction text chosen at
\* construction follows the precedence prompt file, then explicitly passed
\* override string, then built-in default template: whenever a prompt file
\* path is supplied the file's text is used, regardless of the override
\* string and the default.
C26_PromptFileFirst ==
    HostedConstructed /\ prov.args.prompt_file # None
                      /\ prov.args.prompt_file.chars # <<>> =>
        LET text == fs[NodeOf(prov.args.prompt_file.chars)].content
        IN IF Trimmed(text) = <<>> /\ prov.self.cls = "anthropic"
           THEN prov.self.system_prompt \in {None, Str(<<>>)}
           ELSE prov.self.system_prompt = Str(Trimmed(text))

\* The prompt file wins over the override when it has text in it.
C26_FileWitness ==
    /\ HostedConstructed
    /\ prov.args.prompt_file = Str(<<"prompt", ".txt">>)
    /\ prov.args.system_prompt = Str(<<" ", "override prompt">>)
    /\ prov.self.system_prompt = Str(<<"file prompt">>)

----------------------------------------------------------------------------
\* ---- PlanningAgent.generate_plan next to the provider class of the same
\* ---- selector, on the same requirement and the same back end ----

\* PROVIDER_CLASS(), then its generate_plan(requirement): no prompt
\* arguments, no injected client; the client the library builds has both call
\* styles and the back end answers either of them with env.reply.
ProviderOutcome(selector, requirement, env) ==
    IF selector = "mock"
    THEN MockPlanProvider_generate_plan(MockPlanProvider_init.self, requirement)
    ELSE IF selector = "openai"
    THEN LET made == OpenAIPlanProvider_init(NoFiles, env.key, None, None, None)
         IN IF made.out.raised # "none" THEN made
            ELSE OpenAIPlanProvider_generate_plan(made.self, requirement, env.lib,
                     [responses |-> env.reply, chat |-> env.reply])
    ELSE LET made == AnthropicPlanProvider_init(NoFiles, env.key, None, None)
         IN IF made.out.raised # "none" THEN made
            ELSE AnthropicPlanProvider_generate_plan(made.self, requirement,
                                                     env.lib, env.reply)

InitRefine ==
    /\ model_provider \in CliModels
    /\ current_plan = None
    /\ plan_approved = FALSE
    /\ op = "__init__"
    /\ arg = <<>>
    /\ raised = "none"
    /\ message = ""
    /\ returned = None
    /\ pre_plan = None
    /\ pre_approved = FALSE
    /\ synth_plan = None
    /\ last_generated = Never
    /\ approved_since = FALSE
    /\ rejected_since = FALSE
    /\ impl_results = NoResults
    /\ prev_files = None
    /\ IdleDisk
    /\ IdleCli
    /\ other = NoAgent
    /\ threads = <<>>
    /\ prov = NoCall

\* agent.generate_plan(requirement), and the provider class of the agent's
\* selector asked the same.
SideBySideCall ==
    /\ \E requirement \in Requirements, env \in Envs :
           /\ DoGeneratePlan(requirement, env)
           /\ LET r == ProviderOutcome(model_provider, requirement, env)
              IN prov' = [tag |-> "provider", self |-> r.self, op |-> "generate_plan",
                          args |-> [NoArgs EXCEPT !.key = env.key,
                                                  !.requirement = requirement],
                          used |-> None, raised |-> r.out.raised,
                          message |-> r.out.message, returned |-> r.out.value]
    /\ UNCHANGED <<wvars, cvars, other, threads>>

NextRefine == SideBySideCall

SpecRefine == InitRefine /\ [][NextRefine]_vars

\* C27: PlanningAgent.generate_plan obtains the plan from the selected plan
\* provider variant: for each selector (mock, openai, anthropic) the text it
\* returns and stores equals what the corresponding PlanProvider's
\* generate_plan returns for the same requirement and the same backend
\* responses.
C27_AgentUsesProvider ==
    op = "generate_plan" /\ prov.tag = "provider" /\ prov.raised = "none" =>
        /\ raised = "none"
        /\ returned = prov.returned
        /\ current_plan = prov.returned

\* The one case where the two agree: a hosted text without white space
\* around it.
C27_AgreeWitness ==
    /\ op = "generate_plan" /\ model_provider = "openai"
    /\ prov.tag = "provider" /\ prov.raised = "none"
    /\ raised = "none" /\ returned = prov.returned
    /\ Truthy(returned)

----------------------------------------------------------------------------
\* ---- Two callers on one agent, a step for each read or write of a field ----
\* The agent has no lock: a caller may run between any two field accesses of
\* another caller's method. A thread's record holds where it is in its method
\* (pc), the method's argument, the plan it holds in a local or has read from
\* the agent, the fields as they were when its method started, and whether
\* the other caller has kept still since then (alone). threads also keeps
\* whether any step ran while the other caller was inside a method
\* (overlapped), whether the last call that ended ran alone (undisturbed),
\* and the plans approve_plan calls have approved.

Callers == {1, 2}

OtherCaller(t) == 3 - t

IdleThread ==
    [pc |-> "idle", arg |-> <<>>, plan |-> None,
     start_plan |-> None, start_approved |-> FALSE, alone |-> TRUE]

Busy(t) == threads.th[t].pc # "idle"

\* Two requirements, to tell a new plan from the old one.
RaceRequirements == {<<"calculator">>, <<"todo">>}

RaceOutputDir == <<"out">>

InitRace ==
    /\ model_provider = "mock"
    /\ current_plan = None
    /\ plan_approved = FALSE
    /\ op = "__init__"
    /\ arg = <<>>
    /\ raised = "none"
    /\ message = ""
    /\ returned = None
    /\ pre_plan = None
    /\ pre_approved = FALSE
    /\ synth_plan = None
    /\ last_generated = Never
    /\ approved_since = FALSE
    /\ rejected_since = FALSE
    /\ impl_results = NoResults
    /\ prev_files = None
    /\ IdleDisk
    /\ IdleCli
    /\ other = NoAgent
    /\ threads = [th |-> [t \in Callers |-> IdleThread], overlapped |-> FALSE,
                  undisturbed |-> TRUE, approved_plans |-> {}]
    /\ prov = NoCall

RaceFrame ==
    <<model_provider, last_generated, approved_since, rejected_since,
      impl_results, prev_files, wvars, cvars, other, prov>>

LastCall == <<op, arg, raised, message, returned, pre_plan, pre_approved>>

\* Caller t has taken a step and is now at thread record next.
Stepped(t, next, approved, undisturbed) ==
    threads' = [th |-> [threads.th EXCEPT ![t] = next,
                                          ![OtherCaller(t)].alone = ~Busy(OtherCaller(t))],
                overlapped |-> threads.overlapped \/ Busy(OtherCaller(t)),
                undisturbed |-> undisturbed,
                approved_plans |-> approved]

\* Caller t goes on inside its method.
GoesOn(t, next) ==
    /\ Stepped(t, next, threads.approved_plans, threads.undisturbed)
    /\ UNCHANGED LastCall

\* Caller t's method ends with outcome out; start is the thread record that
\* holds the fields as they were at the method's first step.
Ends(t, name, a, out, start, approved) ==
    /\ Stepped(t, IdleThread, approved, start.alone)
    /\ op' = name
    /\ arg' = a
    /\ raised' = out.raised
    /\ message' = out.message
    /\ returned' = out.value
    /\ pre_plan' = start.start_plan
    /\ pre_approved' = start.start_approved

\* The thread record of a method that starts now.
Starting(pc, a, plan) ==
    [pc |-> pc, arg |-> a, plan |-> plan,
     start_plan |-> current_plan, start_approved |-> plan_approved,
     alone |-> TRUE]

\* approve_plan, line 168: if not self.current_plan: raise
ApproveCheckPlan(t) ==
    /\ ~Busy(t)
    /\ IF ~Truthy(current_plan)
       THEN Ends(t, "approve_plan", <<>>,
                 Raise("ValueError", "No plan to approve. Generate a plan first."),
                 Starting("idle", <<>>, None), threads.approved_plans)
       ELSE GoesOn(t, Starting("approve_set", <<>>, current_plan))
    /\ UNCHANGED <<current_plan, plan_approved, synth_plan, RaceFrame>>

\* approve_plan, line 170: self.plan_approved = True
ApproveSetApproved(t) ==
    /\ threads.th[t].pc = "approve_set"
    /\ plan_approved' = TRUE
    /\ Ends(t, "approve_plan", <<>>, Return(None), threads.th[t],
            threads.approved_plans \cup {threads.th[t].plan})
    /\ UNCHANGED <<current_plan, synth_plan, RaceFrame>>

\* A reject_plan that leaves the flag as it is.
RejectClearApproved_keeps(t) ==
    /\ ~Busy(t)
    /\ GoesOn(t, Starting("reject_plan", <<>>, None))
    /\ UNCHANGED <<plan_approved, current_plan, synth_plan, RaceFrame>>

\* reject_plan, line 174: self.plan_approved = False
RejectClearApproved(t) ==
    /\ ~Busy(t)
    /\ plan_approved' = FALSE
    /\ GoesOn(t, Starting("reject_plan", <<>>, None))
    /\ UNCHANGED <<current_plan, synth_plan, RaceFrame>>

\* reject_plan, line 175: self.current_plan = None
RejectClearPlan(t) ==
    /\ threads.th[t].pc = "reject_plan"
    /\ current_plan' = None
    /\ Ends(t, "reject_plan", <<>>, Return(None), threads.th[t],
            threads.approved_plans)
    /\ UNCHANGED <<plan_approved, synth_plan, RaceFrame>>

\* generate_plan, line 58: plan = self._generate_plan_with_llm(requirement)
GenerateCallLLM(t) ==
    /\ ~Busy(t)
    /\ \E requirement \in RaceRequirements :
           LET plan == _generate_plan_with_llm(model_provider, requirement, NoEnv)
           IN IF plan.raised # "none"
              THEN Ends(t, "generate_plan", requirement, plan,
                        Starting("idle", requirement, None), threads.approved_plans)
              ELSE GoesOn(t, Starting("generate_store", requirement, plan.value))
    /\ UNCHANGED <<current_plan, plan_approved, synth_plan, RaceFrame>>

\* generate_plan, line 59: self.current_plan = plan
GenerateStorePlan(t) ==
    /\ threads.th[t].pc = "generate_store"
    /\ current_plan' = threads.th[t].plan
    /\ GoesOn(t, [threads.th[t] EXCEPT !.pc = "generate_clear"])
    /\ UNCHANGED <<plan_approved, synth_plan, RaceFrame>>

\* A generate_plan that leaves the flag as it is.
GenerateClearApproved_keeps(t) ==
    /\ threads.th[t].pc = "generate_clear"
    /\ Ends(t, "generate_plan", threads.th[t].arg, Return(threads.th[t].plan),
            threads.th[t], threads.approved_plans)
    /\ UNCHANGED <<plan_approved, current_plan, synth_plan, RaceFrame>>

\* generate_plan, lines 60-61: self.plan_approved = False; return plan
GenerateClearApproved(t) ==
    /\ threads.th[t].pc = "generate_clear"
    /\ plan_approved' = FALSE
    /\ Ends(t, "generate_plan", threads.th[t].arg, Return(threads.th[t].plan),
            threads.th[t], threads.approved_plans)
    /\ UNCHANGED <<current_plan, synth_plan, RaceFrame>>

\* implement_plan, lines 190-191: if not self.plan_approved: raise
ImplementCheckApproved(t) ==
    /\ ~Busy(t)
    /\ IF ~plan_approved
       THEN Ends(t, "implement_plan", RaceOutputDir,
                 Raise("ValueError", "Plan must be approved before implementation"),
                 Starting("idle", RaceOutputDir, None), threads.approved_plans)
       ELSE GoesOn(t, Starting("implement_check", RaceOutputDir, None))
    /\ UNCHANGED <<current_plan, plan_approved, synth_plan, RaceFrame>>

\* implement_plan, lines 193-194: if not self.current_plan: raise
ImplementCheckPlan(t) ==
    /\ threads.th[t].pc = "implement_check"
    /\ IF ~Truthy(current_plan)
       THEN Ends(t, "implement_plan", threads.th[t].arg,
                 Raise("ValueError", "No plan to implement"),
                 threads.th[t], threads.approved_plans)
       ELSE GoesOn(t, [threads.th[t] EXCEPT !.pc = "implement_files",
                                            !.plan = current_plan])
    /\ UNCHANGED <<current_plan, plan_approved, synth_plan, RaceFrame>>

\* implement_plan, lines 197-199: self.current_plan is read again and passed
\* to _generate_files_from_plan, which for the mock provider does not look at
\* it (a plan that reject_plan has meanwhile set to None included).
ImplementGenerateFiles(t) ==
    /\ threads.th[t].pc = "implement_files"
    /\ synth_plan' = current_plan
    /\ Ends(t, "implement_plan", threads.th[t].arg,
            Return(List(_generate_files_from_plan(
                model_provider,
                IF current_plan.tag = "str" THEN current_plan.chars ELSE <<>>,
                threads.th[t].arg))),
            threads.th[t], threads.approved_plans)
    /\ UNCHANGED <<current_plan, plan_approved, RaceFrame>>

NextRace ==
    \E t \in Callers :
        \/ ApproveCheckPlan(t)
        \/ ApproveSetApproved(t)
        \/ RejectClearApproved(t)
        \/ RejectClearPlan(t)
        \/ GenerateCallLLM(t)
        \/ GenerateStorePlan(t)
        \/ GenerateClearApproved(t)
        \/ ImplementCheckApproved(t)
        \/ ImplementCheckPlan(t)
        \/ ImplementGenerateFiles(t)

SpecRace == InitRace /\ [][NextRace]_vars

\* C28: when two callers interleave approve_plan and reject_plan on the same
\* agent at the granularity of single field reads and writes, a state with
\* plan_approved = true and current_plan absent is reachable (C28_Witness),
\* after which implement_plan fails with "No plan to implement"; no
\* sequential sequence of calls reaches that state: it is only found after
\* calls have overlapped.
C28_ApprovedWithoutPlanOnlyByRace ==
    /\ plan_approved /\ current_plan = None => threads.overlapped
    /\ op = "implement_plan" /\ pre_approved /\ pre_plan = None
           /\ threads.undisturbed =>
           raised = "ValueError" /\ message = "No plan to implement"

\* The agent is approved without a plan, and an implement_plan call that
\* started in this state has failed on its second guard.
C28_Witness ==
    /\ plan_approved /\ current_plan = None
    /\ ~Busy(1) /\ ~Busy(2)
    /\ op = "implement_plan" /\ pre_approved /\ pre_plan = None
    /\ threads.undisturbed
    /\ raised = "ValueError" /\ message = "No plan to implement"

\* C29: when one caller runs generate_plan while another runs implement_plan
\* on an Approved agent, interleaved at the granularity of single field reads
\* and writes, implement_plan can succeed on the newly generated plan that
\* was never approved (C29_Witness); in sequential use this never happens:
\* a plan that implement_plan succeeds on has been approved, unless calls
\* have overlapped.
C29_UnapprovedPlanOnlyByRace ==
    Succeeded("implement_plan") /\ synth_plan \notin threads.approved_plans
        => threads.overlapped

\* implement_plan started on the approved old plan and returned files for a
\* new plan that no approve_plan call has seen, while generate_plan had
\* stored the plan and not yet cleared the flag.
C29_Witness ==
    /\ Succeeded("implement_plan")
    /\ pre_approved /\ Truthy(pre_plan) /\ pre_plan \in threads.approved_plans
    /\ Truthy(synth_plan) /\ synth_plan # pre_plan
    /\ synth_plan \notin threads.approved_plans
    /\ \E t \in Callers : threads.th[t].pc = "generate_clear"
                             /\ threads.th[t].plan = synth_plan

====
